---- MODULE Spec2Model ----
(***************************************************************************)
(* Model of rules_callback.go: the scan callback container (the list of    *)
(* malloc()'d C pointers and its finalizer) and scanCallbackFunc, the      *)
(* function YARA calls for every message of a scan.                        *)
(***************************************************************************)
EXTENDS Integers, Sequences, FiniteSets, TLC

\* ------------------------------------------------------------------ bounds
MaxEvents == 2          \* calls of scanCallbackFunc in one behaviour
MaxAllocs == 2          \* calloc() calls that succeed before memory runs out

Containers == {1, 2}    \* the scanCallbackContainer objects that may be made
Tokens == {1, 2}        \* the userData values the engine may pass
Ptrs == 1..MaxAllocs    \* the blocks calloc() may return

Nil == 0                \* Get found no *scanCallbackContainer
NULL == 0               \* C null pointer
NoInterface == "none"   \* no case of the switch, no method invoked

\* ------------------------------------------------- engine-defined constants
CALLBACK_MSG_RULE_MATCHING == "CALLBACK_MSG_RULE_MATCHING"
CALLBACK_MSG_RULE_NOT_MATCHING == "CALLBACK_MSG_RULE_NOT_MATCHING"
CALLBACK_MSG_SCAN_FINISHED == "CALLBACK_MSG_SCAN_FINISHED"
CALLBACK_MSG_IMPORT_MODULE == "CALLBACK_MSG_IMPORT_MODULE"
CALLBACK_MSG_MODULE_IMPORTED == "CALLBACK_MSG_MODULE_IMPORTED"
\* any message code the switch has no case for
CALLBACK_MSG_OTHER == "CALLBACK_MSG_OTHER"

Messages ==
    { CALLBACK_MSG_RULE_MATCHING, CALLBACK_MSG_RULE_NOT_MATCHING,
      CALLBACK_MSG_SCAN_FINISHED, CALLBACK_MSG_IMPORT_MODULE,
      CALLBACK_MSG_MODULE_IMPORTED, CALLBACK_MSG_OTHER }

CALLBACK_CONTINUE == "CALLBACK_CONTINUE"
CALLBACK_ABORT == "CALLBACK_ABORT"
CALLBACK_ERROR == "CALLBACK_ERROR"

\* ------------------------------------------------- the callback interfaces
ScanCallbackMatch == "RuleMatching"
ScanCallbackNoMatch == "RuleNotMatching"
ScanCallbackFinished == "ScanFinished"
ScanCallbackModuleImport == "ImportModule"
ScanCallbackModuleImportFinished == "ModuleImported"

Interfaces ==
    { ScanCallbackMatch, ScanCallbackNoMatch, ScanCallbackFinished,
      ScanCallbackModuleImport, ScanCallbackModuleImportFinished }

\* A ScanCallback is interface{}: any object; what matters to the dispatcher
\* is the set of callback interfaces its dynamic type satisfies.
ScanCallback ==
    { Interfaces, {ScanCallbackMatch}, {ScanCallbackModuleImport} }

\* the []byte values an ImportModule callback may return
Payloads == { <<>>, <<0, 255>> }

VARIABLES
    cbc,            \* the scanCallbackContainer objects
    callbackData,   \* the process-wide registry: token -> container
    heap,           \* C heap: the blocks calloc() has handed out
    nfree,          \* per block, how many times free() was called on it
    mi,             \* YR_MODULE_IMPORT of the current import message
    traced,         \* the container whose scan the two histories follow
    events,         \* history: the messages delivered for the traced scan
    calls,          \* history: the callback methods invoked for that scan
    last,           \* what the latest call of scanCallbackFunc did
    tracked,        \* history: blocks ever passed to addCPointer
    finalized,      \* history: containers finalize() has run on
    crashed,        \* the process died (write through a null pointer)
    mr,             \* per container: the MatchRules its ScanCallback points to
    run,            \* the rerun of a scan: its phase and the messages replayed
    thr             \* the threads inside scanCallbackFunc, step by step

vars ==
    << cbc, callbackData, heap, nfree, mi, traced, events, calls, last,
       tracked, finalized, crashed, mr, run, thr >>

\* the state only the recorder and the threaded specifications use
aux == << mr, run, thr >>

\* ---------------------------------------------------------------- helpers
Range(s) == { s[i] : i \in 1..Len(s) }

NoContainer ==
    [made |-> FALSE, ScanCallback |-> {}, cdata |-> <<>>,
     finalizer |-> FALSE, reachable |-> FALSE]

NoBlock == [st |-> "unalloc", bytes |-> <<>>]

NoEvent ==
    [n |-> 0, userData |-> 0, message |-> "none", cbc |-> Nil,
     invoked |-> NoInterface, buf |-> <<>>, abort |-> FALSE, err |-> FALSE,
     cbuf |-> NULL, verdict |-> "none"]

\* a ScanCallback that is no *MatchRules
NoMatchRules == [is |-> FALSE, recs |-> <<>>]

\* no rerun under way
NoRun == [phase |-> 0, script |-> <<>>, pos |-> 0]

\* the threads the engine may call scanCallbackFunc on at the same time
Threads == {1, 2}

\* a thread outside scanCallbackFunc
Idle == [pc |-> "idle", userData |-> 0, message |-> "none", cbc |-> Nil,
         buf |-> <<>>, cbuf |-> NULL, cdata |-> <<>>, made |-> <<>>]

\* C.calloc(1, n): n zeroed bytes
calloc(n) == [i \in 1..n |-> 0]

\* copy() left out: the block keeps calloc's zeroes
copy_omitted(dst, src) == dst

\* Go's builtin copy(dst, src): min(len(dst), len(src)) elements
copy(dst, src) ==
    [i \in 1..Len(dst) |-> IF i <= Len(src) THEN src[i] ELSE dst[i]]

\* the blocks calloc() can still hand out; none is left when memory is full
Fresh ==
    LET used == { p \in Ptrs : heap[p].st # "unalloc" }
    IN  IF used = Ptrs THEN {} ELSE { CHOOSE p \in Ptrs \ used : \A q \in Ptrs \ used : p <= q }

Init ==
    /\ cbc = [c \in Containers |-> NoContainer]
    /\ callbackData = [t \in Tokens |-> Nil]
    /\ heap = [p \in Ptrs |-> NoBlock]
    /\ nfree = [p \in Ptrs |-> 0]
    /\ mi = [module_data |-> NULL, module_data_size |-> 0]
    /\ traced = Nil
    /\ events = <<>>
    /\ calls = <<>>
    /\ last = NoEvent
    /\ tracked = {}
    /\ finalized = {}
    /\ crashed = FALSE
    /\ mr = [c \in Containers |-> NoMatchRules]
    /\ run = NoRun
    /\ thr = [t \in Threads |-> Idle]

\* ------------------------------------------------- scanCallbackContainer
makeScanCallbackContainer(c, sc) ==
    /\ ~crashed
    /\ UNCHANGED aux
    /\ ~cbc[c].made
    /\ \A d \in Containers : d < c => cbc[d].made
    /\ cbc' = [cbc EXCEPT ![c] =
                 [made |-> TRUE, ScanCallback |-> sc, cdata |-> <<>>,
                  finalizer |-> TRUE, reachable |-> TRUE]]
    /\ UNCHANGED << callbackData, heap, nfree, mi, traced, events, calls,
                    last, tracked, finalized, crashed >>

addCPointer(cdata, p) == Append(cdata, p)

RECURSIVE FreeAll(_, _)
\* for _, p := range c.cdata { C.free(p) }
FreeAll(cdata, h) ==
    IF cdata = <<>> THEN h
    ELSE FreeAll(Tail(cdata),
                 [h EXCEPT ![Head(cdata)].st = "freed"])

RECURSIVE CountFrees(_, _)
CountFrees(cdata, nf) ==
    IF cdata = <<>> THEN nf
    ELSE CountFrees(Tail(cdata), [nf EXCEPT ![Head(cdata)] = @ + 1])

\* finalize without "c.cdata = nil"
finalize_keeps_cdata(c) ==
    /\ heap' = FreeAll(cbc[c].cdata, heap)
    /\ nfree' = CountFrees(cbc[c].cdata, nfree)
    /\ cbc' = [cbc EXCEPT ![c].finalizer = FALSE]
    /\ finalized' = finalized \cup {c}

\* finalize frees stored C pointers
finalize(c) ==
    /\ heap' = FreeAll(cbc[c].cdata, heap)
    /\ nfree' = CountFrees(cbc[c].cdata, nfree)
    /\ cbc' = [cbc EXCEPT ![c].cdata = <<>>, ![c].finalizer = FALSE]
    /\ finalized' = finalized \cup {c}

\* an explicit call of c.finalize() by code of the package
Finalize(c) ==
    /\ ~crashed
    /\ UNCHANGED aux
    /\ cbc[c].made
    /\ cbc[c].reachable
    /\ finalize(c)
    /\ UNCHANGED << callbackData, mi, traced, events, calls, last, tracked,
                    crashed >>

\* the garbage collector runs the finalizer of an unreachable container
GCFinalize(c) ==
    /\ ~crashed
    /\ UNCHANGED aux
    /\ cbc[c].made
    /\ ~cbc[c].reachable
    /\ cbc[c].finalizer
    /\ finalize(c)
    /\ UNCHANGED << callbackData, mi, traced, events, calls, last, tracked,
                    crashed >>

\* ------------------------------------------------------- callback registry
Get(userData) == callbackData[userData]

Put(c, tok) ==
    /\ ~crashed
    /\ UNCHANGED aux
    /\ cbc[c].made
    /\ cbc[c].reachable
    /\ callbackData[tok] = Nil
    /\ \A t \in Tokens : t < tok => callbackData[t] # Nil
    /\ \A t \in Tokens : callbackData[t] # c
    /\ callbackData' = [callbackData EXCEPT ![tok] = c]
    /\ UNCHANGED << cbc, heap, nfree, mi, traced, events, calls, last,
                    tracked, finalized, crashed >>

\* the scan returns: the token is released and the container dropped
Delete(tok) ==
    /\ ~crashed
    /\ UNCHANGED aux
    /\ callbackData[tok] # Nil
    /\ callbackData' = [callbackData EXCEPT ![tok] = Nil]
    /\ cbc' = [cbc EXCEPT ![callbackData[tok]].reachable = FALSE]
    /\ UNCHANGED << heap, nfree, mi, traced, events, calls, last, tracked,
                    finalized, crashed >>

\* ------------------------------------------------------- scanCallbackFunc
\* a default case falling into the RULE_MATCHING case
InterfaceFor_default_match(message) ==
    CASE message = CALLBACK_MSG_RULE_MATCHING -> ScanCallbackMatch
      [] message = CALLBACK_MSG_RULE_NOT_MATCHING -> ScanCallbackNoMatch
      [] message = CALLBACK_MSG_SCAN_FINISHED -> ScanCallbackFinished
      [] message = CALLBACK_MSG_IMPORT_MODULE -> ScanCallbackModuleImport
      [] message = CALLBACK_MSG_MODULE_IMPORTED -> ScanCallbackModuleImportFinished
      [] OTHER -> ScanCallbackMatch

\* the RULE_NOT_MATCHING case asserting and calling the RULE_MATCHING interface
InterfaceFor_copied_case(message) ==
    CASE message = CALLBACK_MSG_RULE_MATCHING -> ScanCallbackMatch
      [] message = CALLBACK_MSG_RULE_NOT_MATCHING -> ScanCallbackMatch
      [] message = CALLBACK_MSG_SCAN_FINISHED -> ScanCallbackFinished
      [] message = CALLBACK_MSG_IMPORT_MODULE -> ScanCallbackModuleImport
      [] message = CALLBACK_MSG_MODULE_IMPORTED -> ScanCallbackModuleImportFinished
      [] OTHER -> NoInterface

\* the interface each case of the switch asserts, if any
InterfaceFor(message) ==
    CASE message = CALLBACK_MSG_RULE_MATCHING -> ScanCallbackMatch
      [] message = CALLBACK_MSG_RULE_NOT_MATCHING -> ScanCallbackNoMatch
      [] message = CALLBACK_MSG_SCAN_FINISHED -> ScanCallbackFinished
      [] message = CALLBACK_MSG_IMPORT_MODULE -> ScanCallbackModuleImport
      [] message = CALLBACK_MSG_MODULE_IMPORTED -> ScanCallbackModuleImportFinished
      [] OTHER -> NoInterface

\* the method called without the type assertion's ok being checked
Implements_unchecked(sc, iface) == TRUE

\* c, ok := cbc.ScanCallback.(ScanCallbackXxx)
Implements(sc, iface) == iface \in sc

\* a failed lookup treated like a missing capability
UnroutableVerdict_continue == CALLBACK_CONTINUE

\* the return value when userData names no *scanCallbackContainer
UnroutableVerdict == CALLBACK_ERROR

\* abort and err kept in package variables, so that an earlier call's
\* results are still set when a later call reaches the tail
Verdict_sticky(abort, err) ==
    IF err \/ last.err THEN CALLBACK_ERROR
    ELSE IF abort \/ last.abort THEN CALLBACK_ABORT
    ELSE CALLBACK_CONTINUE

\* the tail with the two tests in the other order
Verdict_abort_first(abort, err) ==
    IF abort THEN CALLBACK_ABORT
    ELSE IF err THEN CALLBACK_ERROR
    ELSE CALLBACK_CONTINUE

\* the tail of scanCallbackFunc: err is checked before abort
Verdict(abort, err) ==
    IF err THEN CALLBACK_ERROR
    ELSE IF abort THEN CALLBACK_ABORT
    ELSE CALLBACK_CONTINUE

\* len(buf) == 0 returning at once instead of breaking out of the switch
EmptyPayloadVerdict_return(abort, err) == CALLBACK_CONTINUE

\* len(buf) == 0 breaks out of the switch, to the same tail
EmptyPayloadVerdict(abort, err) == Verdict(abort, err)

\* the block freed when the callback returns (defer C.free(cbuf))
StoreBlock_freed_on_return(h, p, buf) ==
    [h EXCEPT ![p] = [st |-> "freed", bytes |-> copy(calloc(Len(buf)), buf)]]

\* outbuf aliases the calloc'ed block, with Len = len(buf); copy(outbuf, buf)
StoreBlock(h, p, buf) ==
    [h EXCEPT ![p] = [st |-> "alloc", bytes |-> copy(calloc(Len(buf)), buf)]]

\* mi.module_data, mi.module_data_size = &outbuf[0], len(outbuf)
WriteModuleData(p, outbuf) ==
    [module_data |-> p, module_data_size |-> Len(outbuf)]

\* the method scanCallbackFunc invokes for this message, if any
Invoked(userData, message) ==
    LET c == Get(userData)
        iface == InterfaceFor(message)
    IN  IF c # Nil /\ iface # NoInterface /\ Implements(cbc[c].ScanCallback, iface)
        THEN iface ELSE NoInterface

\* what the invoked method may return; a method not invoked returns nothing
ReturnedPayloads(userData, message) ==
    IF Invoked(userData, message) # NoInterface
       /\ message = CALLBACK_MSG_IMPORT_MODULE
    THEN Payloads ELSE { <<>> }

ReturnedFlags(userData, message) ==
    IF Invoked(userData, message) # NoInterface THEN BOOLEAN ELSE { FALSE }

\* the engine's message: userData is the token, (buf, abort, err) is what the
\* callback method returns if it is invoked
scanCallbackFunc(userData, message, buf, abort, err) ==
    LET c == Get(userData)
        n == last.n + 1
        iface == Invoked(userData, message)
        ok == c # Nil
        invoked == iface # NoInterface
        import == invoked /\ message = CALLBACK_MSG_IMPORT_MODULE
        \* var abort bool; var err error; var buf []byte
        rabort == invoked /\ abort
        rerr == invoked /\ err
        rbuf == IF import THEN buf ELSE <<>>
        \* the engine hands a YR_MODULE_IMPORT with no module data
        mi0 == IF message = CALLBACK_MSG_IMPORT_MODULE
               THEN [module_data |-> NULL, module_data_size |-> 0]
               ELSE mi
        ev == IF c = traced THEN << [n |-> n, message |-> message] >>
              ELSE << >>
        cl == IF invoked /\ c = traced THEN << [n |-> n, method |-> iface] >>
              ELSE << >>
        rec == [n |-> n, userData |-> userData, message |-> message,
                cbc |-> c,
                invoked |-> iface,
                buf |-> rbuf, abort |-> rabort, err |-> rerr,
                cbuf |-> NULL, verdict |-> "none"]
    IN
    /\ ~crashed
    /\ last.n < MaxEvents
    /\ UNCHANGED traced
    /\ IF ~ok
       THEN /\ last' = [rec EXCEPT !.verdict = UnroutableVerdict]
            /\ mi' = mi0
            /\ UNCHANGED << cbc, callbackData, heap, nfree, events, calls,
                            tracked, finalized, crashed >>
       ELSE IF ~import \/ Len(rbuf) = 0
       THEN /\ last' = [rec EXCEPT !.verdict =
                          IF import THEN EmptyPayloadVerdict(rabort, rerr)
                          ELSE Verdict(rabort, rerr)]
            /\ events' = events \o ev
            /\ calls' = calls \o cl
            /\ mi' = mi0
            /\ UNCHANGED << cbc, callbackData, heap, nfree, tracked,
                            finalized, crashed >>
       ELSE \E cbuf \in Fresh \cup {NULL} :
              IF cbuf = NULL
              THEN \* calloc failed: copy(outbuf, buf) writes through a
                   \* null pointer and the call never returns
                   /\ crashed' = TRUE
                   /\ events' = events \o ev
                   /\ calls' = calls \o cl
                   /\ mi' = mi0
                   /\ UNCHANGED << cbc, callbackData, heap, nfree, last,
                                   tracked, finalized >>
              ELSE /\ heap' = StoreBlock(heap, cbuf, rbuf)
                   /\ mi' = WriteModuleData(cbuf, heap'[cbuf].bytes)
                   /\ cbc' = [cbc EXCEPT ![c].cdata = addCPointer(@, cbuf)]
                   /\ tracked' = tracked \cup {cbuf}
                   /\ last' = [rec EXCEPT !.cbuf = cbuf,
                                          !.verdict = Verdict(rabort, rerr)]
                   /\ events' = events \o ev
                   /\ calls' = calls \o cl
                   /\ UNCHANGED << callbackData, nfree, finalized, crashed >>

\* the engine delivers a message of a scan whose bundle is the caller's own
Deliver(userData, message, buf, abort, err) ==
    /\ scanCallbackFunc(userData, message, buf, abort, err)
    /\ UNCHANGED aux

Next ==
    \/ \E c \in Containers, sc \in ScanCallback : makeScanCallbackContainer(c, sc)
    \/ \E c \in Containers, tok \in Tokens : Put(c, tok)
    \/ \E tok \in Tokens : Delete(tok)
    \/ \E c \in Containers : Finalize(c)
    \/ \E c \in Containers : GCFinalize(c)
    \/ \E userData \in Tokens, message \in Messages :
          \E buf \in ReturnedPayloads(userData, message),
             abort \in ReturnedFlags(userData, message),
             err \in ReturnedFlags(userData, message) :
             Deliver(userData, message, buf, abort, err)

Spec == Init /\ [][Next]_vars

\* ------------------------------------------------------------ one scan
\* A scan under way: its container is made and registered, and the histories
\* follow it; a second scan with its own container runs beside it.
InitScan ==
    /\ \E sc1 \in ScanCallback, sc2 \in ScanCallback :
          cbc = [c \in Containers |->
                   [made |-> TRUE, ScanCallback |-> IF c = 1 THEN sc1 ELSE sc2,
                    cdata |-> <<>>, finalizer |-> TRUE, reachable |-> TRUE]]
    /\ callbackData = [t \in Tokens |-> t]
    /\ heap = [p \in Ptrs |-> NoBlock]
    /\ nfree = [p \in Ptrs |-> 0]
    /\ mi = [module_data |-> NULL, module_data_size |-> 0]
    /\ traced = 1
    /\ events = <<>>
    /\ calls = <<>>
    /\ last = NoEvent
    /\ tracked = {}
    /\ finalized = {}
    /\ crashed = FALSE
    /\ mr = [c \in Containers |-> NoMatchRules]
    /\ run = NoRun
    /\ thr = [t \in Threads |-> Idle]

NextScan ==
    \E userData \in Tokens, message \in Messages :
       \E buf \in ReturnedPayloads(userData, message),
          abort \in ReturnedFlags(userData, message),
          err \in ReturnedFlags(userData, message) :
          Deliver(userData, message, buf, abort, err)
         

SpecScan == InitScan /\ [][NextScan]_vars

TypeOK ==
    /\ crashed \in BOOLEAN
    /\ \A p \in Ptrs : heap[p].st \in {"unalloc", "alloc", "freed"}
    /\ last.n <= MaxEvents

\* ------------------------------------------------------------ MatchRules
\* A Go int is 64 bits wide: four 16-bit limbs, least significant first, in
\* two's complement.  An int32 is the integer it denotes.
I80 == << 80, 0, 0, 0 >>
IMinus1 == << 65535, 65535, 65535, 65535 >>
ITwo31 == << 0, 32768, 0, 0 >>
ITwo32Plus5 == << 5, 0, 1, 0 >>

\* the Rule handles the engine passes with a rule message, as their
\* accessors present them: Identifier, Namespace, Tags, Metas, match strings
R1 ==
    [identifier |-> "suspicious", namespace |-> "default",
     tags |-> << "malware" >>,
     metas |-> [k \in {"score"} |-> [t |-> "int", v |-> I80]],
     strings |-> << "$a" >>]

R2 ==
    [identifier |-> "packed", namespace |-> "default",
     tags |-> << >>,
     metas |-> [k \in {"size", "delta"} |->
                  IF k = "size" THEN [t |-> "int", v |-> ITwo31]
                  ELSE [t |-> "int", v |-> IMinus1]],
     strings |-> << >>]

R3 ==
    [identifier |-> "doc", namespace |-> "other",
     tags |-> << "a", "b" >>,
     metas |-> [k \in {"author", "offset"} |->
                  IF k = "author" THEN [t |-> "string", v |-> "x"]
                  ELSE [t |-> "int", v |-> ITwo32Plus5]],
     strings |-> << "$b", "$c" >>]

Rules == { R1, R2, R3 }

\* the orders in which "for s := range metas" may visit the keys
RECURSIVE Orders(_)
Orders(keys) ==
    IF keys = {} THEN { << >> }
    ELSE UNION { { << k >> \o o : o \in Orders(keys \ {k}) } : k \in keys }

\* the conversion widened to the identity: the loop left out
int32_kept(i) == [t |-> "int", v |-> i]

\* int32(i): the low 32 bits of i, read as a signed number
int32(i) ==
    [t |-> "int32",
     v |-> IF i[2] >= 32768 THEN (i[2] - 65536) * 65536 + i[1]
           ELSE i[2] * 65536 + i[1]]

\* the loop ending after the first int it converts
RECURSIVE ConvertMetas_first_only(_, _)
ConvertMetas_first_only(metas, order) ==
    IF order = << >> THEN metas
    ELSE LET s == Head(order)
         IN  IF metas[s].t = "int"
             THEN [metas EXCEPT ![s] = int32(metas[s].v)]
             ELSE ConvertMetas_first_only(metas, Tail(order))

\* for s := range metas { if i, ok := metas[s].(int); ok { metas[s] = int32(i) } }
RECURSIVE ConvertMetas(_, _)
ConvertMetas(metas, order) ==
    IF order = << >> THEN metas
    ELSE LET s == Head(order)
         IN  ConvertMetas(IF metas[s].t = "int"
                          THEN [metas EXCEPT ![s] = int32(metas[s].v)]
                          ELSE metas,
                          Tail(order))

\* the MatchRule that RuleMatching builds
MatchRule(r, order) ==
    [Rule |-> r.identifier, Namespace |-> r.namespace, Tags |-> r.tags,
     Meta |-> ConvertMetas(r.metas, order), Strings |-> r.strings]

\* the record put in front of the earlier ones
RuleMatching_prepend(recs, r, order) == << MatchRule(r, order) >> \o recs

\* *mr = append(*mr, MatchRule{...})
RuleMatching(recs, r, order) == Append(recs, MatchRule(r, order))

\* RuleMatching's named results, returned as they were declared
RuleMatchingReturn == [abort |-> FALSE, err |-> FALSE]

\* scanCallbackFunc for a scan whose ScanCallback is a *MatchRules; r is the
\* rule of a rule message, order the order in which its metas are visited
scanCallbackFuncMatchRules(userData, message, r, order) ==
    LET c == Get(userData)
    IN  /\ c # Nil
        /\ mr[c].is
        /\ scanCallbackFunc(userData, message, << >>,
                            RuleMatchingReturn.abort, RuleMatchingReturn.err)
        /\ mr' = IF Invoked(userData, message) = ScanCallbackMatch
                 THEN [mr EXCEPT ![c].recs = RuleMatching(@, r, order)]
                 ELSE mr
        /\ UNCHANGED thr

\* the container and token of a scan that collects its matches
MatchRulesContainer ==
    [made |-> TRUE, ScanCallback |-> {ScanCallbackMatch}, cdata |-> <<>>,
     finalizer |-> TRUE, reachable |-> TRUE]

\* the rule a message carries; messages of the other kinds carry none
RulesOf(message) ==
    IF message \in { CALLBACK_MSG_RULE_MATCHING, CALLBACK_MSG_RULE_NOT_MATCHING }
    THEN Rules ELSE { R1 }

InitRec ==
    /\ cbc = [c \in Containers |->
                IF c = 1 THEN MatchRulesContainer ELSE NoContainer]
    /\ callbackData = [t \in Tokens |-> IF t = 1 THEN 1 ELSE Nil]
    /\ heap = [p \in Ptrs |-> NoBlock]
    /\ nfree = [p \in Ptrs |-> 0]
    /\ mi = [module_data |-> NULL, module_data_size |-> 0]
    /\ traced = Nil
    /\ events = <<>>
    /\ calls = <<>>
    /\ last = NoEvent
    /\ tracked = {}
    /\ finalized = {}
    /\ crashed = FALSE
    /\ mr = [c \in Containers |->
               IF c = 1 THEN [is |-> TRUE, recs |-> <<>>] ELSE NoMatchRules]
    /\ run = [phase |-> 1, script |-> <<>>, pos |-> 0]
    /\ thr = [t \in Threads |-> Idle]

\* the first scan: the engine delivers a message
FirstScan(message, r, order) ==
    /\ run.phase = 1
    /\ scanCallbackFuncMatchRules(1, message, r, order)
    /\ run' = [run EXCEPT !.script = Append(@, [message |-> message, rule |-> r])]

\* the first scan returns and the same scan is started again, with a new
\* MatchRules in a new container
Rerun ==
    /\ run.phase = 1
    /\ ~crashed
    /\ run' = [run EXCEPT !.phase = 2]
    /\ cbc' = [cbc EXCEPT ![1].reachable = FALSE, ![2] = MatchRulesContainer]
    /\ callbackData' = [callbackData EXCEPT ![1] = 2]
    /\ mr' = [mr EXCEPT ![2] = [is |-> TRUE, recs |-> <<>>]]
    /\ last' = NoEvent
    /\ UNCHANGED << heap, nfree, mi, traced, events, calls, tracked,
                    finalized, crashed, thr >>

\* the second scan: the engine delivers the messages of the first again
SecondScan ==
    /\ run.phase = 2
    /\ run.pos < Len(run.script)
    /\ LET e == run.script[run.pos + 1]
       IN  \E order \in Orders(DOMAIN e.rule.metas) :
              scanCallbackFuncMatchRules(1, e.message, e.rule, order)
    /\ run' = [run EXCEPT !.pos = @ + 1]

NextRec ==
    \/ \E message \in Messages :
          \E r \in RulesOf(message) : \E order \in Orders(DOMAIN r.metas) :
             FirstScan(message, r, order)
    \/ Rerun
    \/ SecondScan

SpecRec == InitRec /\ [][NextRec]_vars

\* ------------------------------------------------------------ two threads
\* Two scans run at the same time, each on its own thread; the engine calls
\* scanCallbackFunc on the scan's thread.  Nothing in the file synchronises
\* the calls, so what one call does to a container is split at the points
\* where the other can run: c.cdata = append(c.cdata, p) reads the slice and
\* writes it back.
InitConc ==
    /\ cbc = [c \in Containers |->
                [made |-> TRUE, ScanCallback |-> {ScanCallbackModuleImport},
                 cdata |-> <<>>, finalizer |-> TRUE, reachable |-> TRUE]]
    /\ callbackData = [t \in Tokens |-> t]
    /\ heap = [p \in Ptrs |-> NoBlock]
    /\ nfree = [p \in Ptrs |-> 0]
    /\ mi = [module_data |-> NULL, module_data_size |-> 0]
    /\ traced = Nil
    /\ events = <<>>
    /\ calls = <<>>
    /\ last = NoEvent
    /\ tracked = {}
    /\ finalized = {}
    /\ crashed = FALSE
    /\ mr = [c \in Containers |-> NoMatchRules]
    /\ run = NoRun
    /\ thr = [t \in Threads |-> Idle]

\* the calls begun and not yet returned
InFlight == { t \in Threads : thr[t].pc # "idle" }

\* the container every scan's buffers go to, whatever its token
TrackTarget_shared(t) == CHOOSE c \in Containers : cbc[c].made

\* the receiver of cbc.addCPointer(cbuf): the container looked up on entry
TrackTarget(t) == thr[t].cbc

\* what a call that has returned leaves in last
ReturnedCall(t, cbuf) ==
    [n |-> last.n + 1, userData |-> thr[t].userData,
     message |-> thr[t].message, cbc |-> thr[t].cbc,
     invoked |-> Invoked(thr[t].userData, thr[t].message),
     buf |-> thr[t].buf, abort |-> FALSE, err |-> FALSE,
     cbuf |-> cbuf, verdict |-> Verdict(FALSE, FALSE)]

\* the engine calls scanCallbackFunc on thread t: the lookup, the type
\* assertion and, for an import, the call of ImportModule
ThreadCall(t, userData, message, buf) ==
    /\ ~crashed
    /\ thr[t].pc = "idle"
    /\ thr[t].userData \in {0, userData}
    /\ Get(userData) # Nil
    /\ last.n + Cardinality(InFlight) < MaxEvents
    /\ thr' = [thr EXCEPT ![t].pc = "called", ![t].userData = userData,
                          ![t].message = message,
                          ![t].cbc = Get(userData), ![t].buf = buf]
    /\ UNCHANGED << cbc, callbackData, heap, nfree, mi, traced, events,
                    calls, last, tracked, finalized, crashed, mr, run >>

\* a call that allocates nothing reaches the tail and returns
ThreadReturn(t) ==
    /\ ~crashed
    /\ thr[t].pc = "called"
    /\ \/ Invoked(thr[t].userData, thr[t].message) # ScanCallbackModuleImport
       \/ Len(thr[t].buf) = 0
    /\ last' = ReturnedCall(t, NULL)
    /\ thr' = [thr EXCEPT ![t].pc = "idle"]
    /\ UNCHANGED << cbc, callbackData, heap, nfree, mi, traced, events,
                    calls, tracked, finalized, crashed, mr, run >>

\* C.calloc, copy and the write of mi
ThreadAlloc(t) ==
    /\ ~crashed
    /\ thr[t].pc = "called"
    /\ Invoked(thr[t].userData, thr[t].message) = ScanCallbackModuleImport
    /\ Len(thr[t].buf) > 0
    /\ \E cbuf \in Fresh \cup {NULL} :
          IF cbuf = NULL
          THEN /\ crashed' = TRUE
               /\ UNCHANGED << heap, mi, tracked, thr >>
          ELSE /\ heap' = StoreBlock(heap, cbuf, thr[t].buf)
               /\ mi' = WriteModuleData(cbuf, heap'[cbuf].bytes)
               /\ tracked' = tracked \cup {cbuf}
               /\ thr' = [thr EXCEPT ![t].pc = "load", ![t].cbuf = cbuf,
                                     ![t].made = Append(@, cbuf)]
               /\ UNCHANGED crashed
    /\ UNCHANGED << cbc, callbackData, nfree, traced, events, calls, last,
                    finalized, mr, run >>

\* addCPointer, first half: c.cdata is read
ThreadLoad(t) ==
    /\ ~crashed
    /\ thr[t].pc = "load"
    /\ thr' = [thr EXCEPT ![t].pc = "store",
                          ![t].cdata = cbc[TrackTarget(t)].cdata]
    /\ UNCHANGED << cbc, callbackData, heap, nfree, mi, traced, events,
                    calls, last, tracked, finalized, crashed, mr, run >>

\* addCPointer, second half: the appended slice is written to c.cdata; the
\* call then reaches the tail and returns
ThreadStore(t) ==
    /\ ~crashed
    /\ thr[t].pc = "store"
    /\ cbc' = [cbc EXCEPT ![TrackTarget(t)].cdata =
                 addCPointer(thr[t].cdata, thr[t].cbuf)]
    /\ last' = ReturnedCall(t, thr[t].cbuf)
    /\ thr' = [thr EXCEPT ![t].pc = "idle", ![t].cbuf = NULL,
                          ![t].cdata = <<>>]
    /\ UNCHANGED << callbackData, heap, nfree, mi, traced, events, calls,
                    tracked, finalized, crashed, mr, run >>

NextConc ==
    \/ \E t \in Threads, userData \in Tokens :
          \E message \in { CALLBACK_MSG_IMPORT_MODULE,
                           CALLBACK_MSG_RULE_MATCHING } :
             \E buf \in ReturnedPayloads(userData, message) :
                ThreadCall(t, userData, message, buf)
    \/ \E t \in Threads : ThreadReturn(t)
    \/ \E t \in Threads : ThreadAlloc(t)
    \/ \E t \in Threads : ThreadLoad(t)
    \/ \E t \in Threads : ThreadStore(t)
    \/ \E c \in Containers : Finalize(c)

SpecConc == InitConc /\ [][NextConc]_vars

\* ------------------------------------------------------------ properties
\* the message each callback interface is documented to correspond to
MessageOf(iface) ==
    CASE iface = "RuleMatching" -> "CALLBACK_MSG_RULE_MATCHING"
      [] iface = "RuleNotMatching" -> "CALLBACK_MSG_RULE_NOT_MATCHING"
      [] iface = "ScanFinished" -> "CALLBACK_MSG_SCAN_FINISHED"
      [] iface = "ImportModule" -> "CALLBACK_MSG_IMPORT_MODULE"
      [] iface = "ModuleImported" -> "CALLBACK_MSG_MODULE_IMPORTED"

\* the verdict the callback's return values call for
Expected(abort, err) ==
    IF err THEN "CALLBACK_ERROR"
    ELSE IF abort THEN "CALLBACK_ABORT" ELSE "CALLBACK_CONTINUE"

\* this step is a call of scanCallbackFunc that returned
Returned == last'.n = last.n + 1

\* the event numbers of a history, in order
Numbers(h) == [i \in 1..Len(h) |-> h[i].n]

\* the pointers stored in some container's cdata
Stored == UNION { Range(cbc[c].cdata) : c \in Containers }

\* C1: whichever of the five callback methods was invoked, the verdict
\* returned is ERROR if the method returned an error (whatever its abort
\* value), else ABORT if it returned abort = true, else CONTINUE.
C1_VerdictMapping ==
    \A iface \in Interfaces :
        last.invoked = iface => last.verdict = Expected(last.abort, last.err)

C1_Witness ==
    /\ last.invoked = "ModuleImported"
    /\ last.abort /\ last.err
    /\ last.verdict = "CALLBACK_ERROR"

\* C2: over the messages delivered for one scan, every callback interface
\* the bundle implements has its method invoked exactly once for each message
\* of its kind, for no other message, and the invocations are in the order
\* of the messages.
C2_OncePerEventInOrder ==
    /\ \A iface \in cbc[traced].ScanCallback :
          Numbers(SelectSeq(calls, LAMBDA cl : cl.method = iface))
            = Numbers(SelectSeq(events, LAMBDA ev : ev.message = MessageOf(iface)))
    /\ \A i, j \in 1..Len(calls) : i < j => calls[i].n < calls[j].n

C2_Witness ==
    /\ Len(events) = 2
    /\ Len(calls) = 2
    /\ calls[1].method = "ImportModule"
    /\ calls[2].method = "RuleNotMatching"

\* C3: a message whose callback interface the resolved bundle does not
\* implement invokes no method, allocates and tracks no buffer, and gets the
\* CONTINUE verdict.
C3_CapabilityAbsent ==
    [][ \A iface \in Interfaces :
          ( /\ Returned
            /\ callbackData[last'.userData] # Nil
            /\ last'.message = MessageOf(iface)
            /\ iface \notin cbc[callbackData[last'.userData]].ScanCallback )
          => /\ last'.invoked = NoInterface
             /\ calls' = calls
             /\ heap' = heap
             /\ cbc' = cbc
             /\ tracked' = tracked
             /\ iface = "ImportModule" => mi'.module_data = NULL
             /\ last'.verdict = "CALLBACK_CONTINUE" ]_vars

C3_Witness ==
    /\ last.message = "CALLBACK_MSG_IMPORT_MODULE"
    /\ last.cbc # Nil
    /\ "ImportModule" \notin cbc[last.cbc].ScanCallback
    /\ last.verdict = "CALLBACK_CONTINUE"

\* C4: a message whose token resolves to no registered container gets the
\* ERROR verdict whatever its kind, and no method is invoked and no buffer
\* allocated or tracked.
C4_Unroutable ==
    [][ (Returned /\ callbackData[last'.userData] = Nil)
        => /\ last'.verdict = "CALLBACK_ERROR"
           /\ last'.invoked = NoInterface
           /\ calls' = calls
           /\ heap' = heap
           /\ cbc' = cbc
           /\ tracked' = tracked ]_vars

\* a stale token: its container was registered, and then released
C4_Witness ==
    /\ last.n > 0
    /\ callbackData[last.userData] = Nil
    /\ last.message = "CALLBACK_MSG_IMPORT_MODULE"
    /\ last.verdict = "CALLBACK_ERROR"
    /\ \E c \in Containers :
          /\ cbc[c].made /\ ~cbc[c].reachable
          /\ "ImportModule" \in cbc[c].ScanCallback

\* C5: when the ImportModule callback returns a payload b, then if b is not
\* empty the engine's YR_MODULE_IMPORT points at a newly allocated block that
\* holds exactly the bytes of b, its size field is len(b), and the block is in
\* the container's cdata; if b is empty the module data stays null with size
\* 0 and nothing is allocated or tracked.
C5_ImportPayload ==
    [][ (Returned /\ last'.invoked = "ImportModule")
        => IF Len(last'.buf) > 0
           THEN /\ mi'.module_data # NULL
                /\ heap[mi'.module_data].st = "unalloc"
                /\ heap'[mi'.module_data].st = "alloc"
                /\ heap'[mi'.module_data].bytes = last'.buf
                /\ mi'.module_data_size = Len(last'.buf)
                /\ cbc'[last'.cbc].cdata
                     = Append(cbc[last'.cbc].cdata, mi'.module_data)
                /\ \A c \in Containers \ {last'.cbc} : cbc'[c] = cbc[c]
           ELSE /\ mi'.module_data = NULL
                /\ mi'.module_data_size = 0
                /\ heap' = heap
                /\ cbc' = cbc
                /\ tracked' = tracked ]_vars

C5_Witness ==
    /\ last.invoked = "ImportModule"
    /\ last.buf = <<0, 255>>
    /\ mi.module_data # NULL
    /\ heap[mi.module_data].bytes = <<0, 255>>
    /\ mi.module_data_size = 2
    /\ mi.module_data \in Range(cbc[last.cbc].cdata)

\* C6: when the ImportModule callback returns an error, the verdict is ERROR
\* and, whatever payload came with the error, no block is allocated, the
\* engine's YR_MODULE_IMPORT gets no module data and nothing is tracked.
C6_NoBufferOnError ==
    [][ (Returned /\ last'.invoked = "ImportModule" /\ last'.err)
        => /\ last'.verdict = "CALLBACK_ERROR"
           /\ heap' = heap
           /\ mi'.module_data = NULL
           /\ cbc' = cbc
           /\ tracked' = tracked ]_vars

\* C7: when the ImportModule callback returns an empty payload, the verdict
\* is still ERROR if it returned an error, else ABORT if it returned abort =
\* true, else CONTINUE, and the import gets no module data.
C7_EmptyPayloadVerdict ==
    [][ (Returned /\ last'.invoked = "ImportModule" /\ Len(last'.buf) = 0)
        => /\ last'.verdict = Expected(last'.abort, last'.err)
           /\ mi'.module_data = NULL
           /\ mi'.module_data_size = 0
           /\ heap' = heap
           /\ cbc' = cbc ]_vars

C7_Witness ==
    /\ last.invoked = "ImportModule"
    /\ last.buf = <<>>
    /\ last.abort /\ ~last.err
    /\ last.verdict = "CALLBACK_ABORT"
    /\ mi.module_data = NULL

\* C8: free() is called at most once on any block; a block that was tracked
\* is either still in one container's cdata, allocated and never freed, or in
\* no cdata and freed exactly once, so a further finalize finds nothing to
\* free.
C8_FreedExactlyOnce ==
    \A p \in Ptrs :
        /\ nfree[p] <= 1
        /\ p \in tracked =>
              \/ /\ p \in Stored
                 /\ Cardinality({ c \in Containers : p \in Range(cbc[c].cdata) }) = 1
                 /\ nfree[p] = 0
                 /\ heap[p].st = "alloc"
              \/ /\ p \notin Stored
                 /\ nfree[p] = 1
                 /\ heap[p].st = "freed"

\* finalize has freed a block, and can be called again on the same container
C8_Witness ==
    \E c \in finalized, p \in tracked :
        /\ nfree[p] = 1
        /\ cbc[c].cdata = <<>>
        /\ last.cbc = c /\ last.cbuf = p
        /\ ENABLED Finalize(c)

\* C9: the block a module import handed to the engine is allocated when
\* scanCallbackFunc returns, and no later call of scanCallbackFunc frees or
\* changes it: an allocated block changes only in finalize of the container
\* that tracks it.
C9_NotFreedByDispatcher ==
    [][ \A p \in Ptrs :
          /\ (Returned /\ last'.cbuf = p) =>
                heap'[p].st = "alloc" /\ heap'[p].bytes = last'.buf
          /\ (heap[p].st = "alloc" /\ heap'[p] # heap[p]) =>
                /\ last' = last
                /\ \E c \in Containers :
                      /\ p \in Range(cbc[c].cdata)
                      /\ cbc'[c].cdata = <<>>
                      /\ c \in finalized' ]_vars

\* a block made by the first message is still there after the second
C9_Witness ==
    \E p \in Ptrs :
        /\ last.n = 2
        /\ last.cbc # Nil
        /\ last.cbuf # p
        /\ p \in Range(cbc[last.cbc].cdata)
        /\ heap[p].st = "alloc"
        /\ mi.module_data = p

\* C10: once finalize has run on a container, no later module import adds a
\* pointer to it: its cdata stays empty.
C10_SealedAfterFinalize ==
    \A c \in finalized : cbc[c].cdata = <<>>

\* C11: a container that is unreachable and has no finalizer left to run
\* holds no tracked block any more: every block tracked against it, also one
\* tracked after an explicit finalize, has been freed.
C11_FreedWhenUnreachable ==
    \A c \in Containers :
        (cbc[c].made /\ ~cbc[c].reachable /\ ~cbc[c].finalizer)
            => cbc[c].cdata = <<>>

\* C12: a failed allocation for a module-import payload never brings the
\* process down by a write through the null pointer.
C12_SurvivesAllocFailure == ~crashed

\* ------------------------------------------------------------ the recorder
\* the container of the scan that is running
Current == IF run.phase = 2 THEN 2 ELSE 1

\* the messages the running scan has received so far
Delivered ==
    IF run.phase = 2 THEN SubSeq(run.script, 1, run.pos) ELSE run.script

\* the rules of the rule-matching messages among seq, in their order
Matched(seq) ==
    LET IsMatch(e) == e.message = CALLBACK_MSG_RULE_MATCHING
        m == SelectSeq(seq, IsMatch)
    IN  [i \in 1..Len(m) |-> m[i].rule]

\* what the recorder of container c has received rule-matching messages for
MatchedBy(c) ==
    IF c = Current THEN Matched(Delivered)
    ELSE IF c = 1 THEN Matched(run.script) ELSE << >>

SameValue(a, b) == a.t = b.t /\ a.v = b.v

SameRecord(a, b) ==
    /\ a.Rule = b.Rule
    /\ a.Namespace = b.Namespace
    /\ a.Tags = b.Tags
    /\ a.Strings = b.Strings
    /\ DOMAIN a.Meta = DOMAIN b.Meta
    /\ \A k \in DOMAIN a.Meta : SameValue(a.Meta[k], b.Meta[k])

\* the number a 64-bit int denotes once it is cut to its low 32 bits
Low32(i) ==
    CASE i = I80 -> 80
      [] i = IMinus1 -> -1
      [] i = ITwo31 -> -2147483647 - 1
      [] i = ITwo32Plus5 -> 5

\* C13: the recorder's result holds one record per rule-matching message of
\* the scan, in the order of the messages, each with the rule's identifier,
\* namespace, tags, metadata names and strings; and a rule-matching message
\* got abort = false, err = nil and the verdict CALLBACK_CONTINUE.
C13_OneRecordPerMatch ==
    /\ \A c \in Containers :
          mr[c].is =>
             /\ Len(mr[c].recs) = Len(MatchedBy(c))
             /\ \A i \in 1..Len(mr[c].recs) :
                   LET rec == mr[c].recs[i]
                       r == MatchedBy(c)[i]
                   IN  /\ rec.Rule = r.identifier
                       /\ rec.Namespace = r.namespace
                       /\ rec.Tags = r.tags
                       /\ rec.Strings = r.strings
                       /\ DOMAIN rec.Meta = DOMAIN r.metas
    /\ (last.n > 0 /\ last.message = CALLBACK_MSG_RULE_MATCHING) =>
          /\ last.invoked = ScanCallbackMatch
          /\ ~last.abort
          /\ ~last.err
          /\ last.verdict = CALLBACK_CONTINUE

C13_Witness ==
    /\ run.phase = 1
    /\ Len(mr[1].recs) = 2
    /\ mr[1].recs[1].Rule = "suspicious"
    /\ mr[1].recs[2].Rule = "packed"
    /\ last.message = CALLBACK_MSG_RULE_MATCHING
    /\ last.verdict = CALLBACK_CONTINUE

\* C14: once the second scan has received every message of the first, its
\* result equals the first scan's: same length, same records, same order.
C14_RerunEqual ==
    (run.phase = 2 /\ run.pos = Len(run.script)) =>
        /\ Len(mr[2].recs) = Len(mr[1].recs)
        /\ \A i \in 1..Len(mr[1].recs) :
              SameRecord(mr[2].recs[i], mr[1].recs[i])

C14_Witness ==
    /\ run.phase = 2
    /\ run.pos = Len(run.script)
    /\ Len(mr[2].recs) = 2
    /\ mr[2].recs[1].Rule = "packed"
    /\ mr[2].recs[2].Rule = "suspicious"
    /\ mr[1].recs = mr[2].recs

\* C15, as stated: every integer metadata value is stored with the value,
\* width and sign the rule reported it with.
C15_WidthKept ==
    \A c \in Containers : \A i \in 1..Len(mr[c].recs) :
        \A k \in DOMAIN mr[c].recs[i].Meta :
            SameValue(mr[c].recs[i].Meta[k], MatchedBy(c)[i].metas[k])

\* C15: an int metadata value is stored as an int32 holding its low 32 bits,
\* the same number exactly when it lies in -2^31 .. 2^31 - 1; a value of any
\* other type is stored as reported.
C15_StoredAsInt32 ==
    \A c \in Containers : \A i \in 1..Len(mr[c].recs) :
        \A k \in DOMAIN mr[c].recs[i].Meta :
            LET stored == mr[c].recs[i].Meta[k]
                reported == MatchedBy(c)[i].metas[k]
            IN  IF reported.t = "int"
                THEN stored.t = "int32" /\ stored.v = Low32(reported.v)
                ELSE SameValue(stored, reported)

C15_Witness ==
    \E i \in 1..Len(mr[1].recs) :
        /\ mr[1].recs[i].Rule = "packed"
        /\ mr[1].recs[i].Meta["size"].t = "int32"
        /\ mr[1].recs[i].Meta["size"].v < 0
        /\ mr[1].recs[i].Meta["delta"].v = -1

\* C19: a message of any kind but rule-matching leaves the recorder's
\* result as it was, allocates and tracks nothing, writes no module data and
\* gets the verdict CALLBACK_CONTINUE.
C19_OtherKindsNoEffect ==
    [][(Returned /\ last'.message # CALLBACK_MSG_RULE_MATCHING) =>
          /\ mr' = mr
          /\ heap' = heap
          /\ cbc' = cbc
          /\ mi'.module_data = NULL
          /\ last'.cbuf = NULL
          /\ last'.verdict = CALLBACK_CONTINUE]_vars

C19_Witness ==
    /\ last.n = 2
    /\ last.message = CALLBACK_MSG_IMPORT_MODULE
    /\ last.invoked = NoInterface
    /\ last.verdict = CALLBACK_CONTINUE
    /\ Len(mr[1].recs) = 1

\* ------------------------------------------------------------ no own state
\* the four kinds of message that carry no module import request
NoImportKinds ==
    { CALLBACK_MSG_RULE_MATCHING, CALLBACK_MSG_RULE_NOT_MATCHING,
      CALLBACK_MSG_SCAN_FINISHED, CALLBACK_MSG_MODULE_IMPORTED }

\* the method a bundle with the capabilities caps is called with for a message
Handler(message, caps) ==
    LET hs == { i \in caps : MessageOf(i) = message }
    IN  IF hs = {} THEN NoInterface ELSE CHOOSE i \in hs : TRUE

\* C18: a returning call for a rule-matching, rule-not-matching,
\* scan-finished or module-imported message leaves every container's tracked
\* list, the heap, the registry and the module-import data as they were; and
\* the method called and the verdict of any returning call are given by the
\* message kind, the bundle's capabilities and the method's results alone,
\* whatever was delivered before.
C18_NoStateBetweenEvents ==
    [][Returned =>
          /\ last'.message \in NoImportKinds =>
                /\ cbc' = cbc
                /\ heap' = heap
                /\ nfree' = nfree
                /\ callbackData' = callbackData
                /\ mi' = mi
          /\ last'.cbc # Nil =>
                /\ last'.invoked =
                      Handler(last'.message, cbc[last'.cbc].ScanCallback)
                /\ last'.verdict = Expected(last'.abort, last'.err)
          /\ last'.cbc = Nil => last'.verdict = CALLBACK_ERROR]_vars

C18_Witness ==
    /\ last.n = 2
    /\ last.message = CALLBACK_MSG_MODULE_IMPORTED
    /\ last.invoked = ScanCallbackModuleImportFinished
    /\ last.verdict = CALLBACK_CONTINUE
    /\ cbc[last.cbc].cdata # <<>>
    /\ mi.module_data # NULL

\* C20: a returning call whose token resolves and whose message is none of
\* the five known kinds calls no method, allocates and tracks nothing, leaves
\* the module-import data alone and gets the verdict CALLBACK_CONTINUE.
C20_UnknownMessage ==
    [][(Returned /\ last'.cbc # Nil /\ last'.message = CALLBACK_MSG_OTHER) =>
          /\ last'.invoked = NoInterface
          /\ last'.cbuf = NULL
          /\ heap' = heap
          /\ cbc' = cbc
          /\ tracked' = tracked
          /\ mi' = mi
          /\ last'.verdict = CALLBACK_CONTINUE]_vars

C20_Witness ==
    /\ last.n > 0
    /\ last.message = CALLBACK_MSG_OTHER
    /\ last.cbc # Nil
    /\ cbc[last.cbc].ScanCallback = Interfaces
    /\ last.invoked = NoInterface
    /\ last.verdict = CALLBACK_CONTINUE

\* ------------------------------------------------------------ concurrency
\* the container registered under the token of thread t's scan
Own(t) == callbackData[thr[t].userData]

\* how often p occurs in a tracked list
Occurrences(cdata, p) == Cardinality({ i \in 1..Len(cdata) : cdata[i] = p })

\* C16: with no call under way, every buffer handed to the engine is either
\* still allocated and tracked exactly once, by the container of its scan,
\* or freed exactly once; none is lost from the lists and none freed twice.
C16_TrackingThreadSafe ==
    (InFlight = {}) =>
        \A t \in Threads : \A p \in Range(thr[t].made) :
            \/ /\ heap[p].st = "alloc"
               /\ nfree[p] = 0
               /\ Occurrences(cbc[Own(t)].cdata, p) = 1
            \/ /\ heap[p].st = "freed"
               /\ nfree[p] = 1

\* C17: a call on a scan's thread runs against the container registered
\* under the scan's token; a buffer made for a scan is in no other
\* container's tracked list; and when the two scans have different tokens, a
\* buffer of a returned call that is still allocated is in its own
\* container's list.
C17_OwnContainerOnly ==
    \A t \in Threads :
        thr[t].userData # 0 =>
            /\ thr[t].pc # "idle" => thr[t].cbc = Own(t)
            /\ \A p \in Range(thr[t].made) : \A c \in Containers :
                  p \in Range(cbc[c].cdata) => c = Own(t)
            /\ (thr[t].pc = "idle"
                /\ \A u \in Threads \ {t} : thr[u].userData # thr[t].userData) =>
                  \A p \in Range(thr[t].made) :
                     heap[p].st = "alloc" => p \in Range(cbc[Own(t)].cdata)

C17_Witness ==
    /\ thr[1].pc = "store"
    /\ thr[2].pc = "idle"
    /\ thr[1].userData = 2
    /\ thr[2].userData = 1
    /\ Len(thr[2].made) = 1
    /\ cbc[1].cdata = thr[2].made
    /\ cbc[2].cdata = <<>>
    /\ heap[thr[1].cbuf].st = "alloc"

====
